---------------------------- MODULE Spec2Model ----------------------------
(***************************************************************************)
(* Academic ledger of the university portal: course registration and drop  *)
(* (core/views.py), the save-time side effects of Enrollment and           *)
(* FinanceRecord and the fee arithmetic of Program (core/models.py).       *)
(*                                                                         *)
(* Money is counted in whole currency units: every Decimal of the source   *)
(* has two decimal places and is only added, subtracted and multiplied by  *)
(* an integer, so the arithmetic is exact and scale-free.                  *)
(* Requests run one at a time; every database write is committed when it   *)
(* is issued (Django's default autocommit, no transaction in the views).   *)
(***************************************************************************)
EXTENDS Integers, Sequences, FiniteSets, TLC

VARIABLES
    today,        \* timezone.now().date(), as a day number
    offerings,    \* CourseOffering table: id -> row
    enrollments,  \* Enrollment table: sequence of rows, the id is the index
    prereqs,      \* CoursePrerequisite table: sequence of rows in id order
    response,     \* outcome of the last request: message and redirect
    programs,     \* Program table: id -> fee fields and duration
    finance,      \* FinanceRecord table: sequence of rows, the id is the index
    inflight,     \* register_course requests in progress: worker -> position and locals
    saving,       \* FinanceRecord.save calls in progress: worker -> position and locals
    is_current,   \* Semester.is_current: semester -> flag
    text_output,  \* outcome of the Gemini call of fetch_online_resources
    resources     \* value returned by fetch_online_resources

\* the state used only by the overlapping requests, Semester.save and the AI service
rest == <<inflight, saving, is_current, text_output, resources>>

vars == <<today, offerings, enrollments, prereqs, response, programs, finance, rest>>

(***************************************************************************)
(* Bounds of the model                                                     *)
(***************************************************************************)
MaxDay      == 4    \* days 0..MaxDay are explored
MaxOverdrop == 1    \* drop_course is explored while enrolled > -MaxOverdrop
MaxAppend   == 3    \* ledger length explored when records are only appended
MaxLedger   == 2    \* ledger length explored when records are also re-saved

Students    == {"s1", "s2"}
OfferingIds == {"o1", "o2"}
ProgramIds  == {"p1", "p2"}
Amounts     == {200, 500}

NULL == <<>>        \* a null column; a present value v is stored as <<v>>

Workers == {"w1", "w2"}

NotRunning == [pc |-> "idle"]

\* nothing is in progress, no semester is current, the AI service was not called
InitRest ==
    /\ inflight = [w \in Workers |-> NotRunning]
    /\ saving = [w \in Workers |-> NotRunning]
    /\ is_current = [sem \in {"sem1", "sem2"} |-> FALSE]
    /\ text_output = [kind |-> "not called", text |-> <<>>]
    /\ resources = [kind |-> "not called", value |-> <<>>]

(***************************************************************************)
(* Semester rows (core/models.py, Semester): the dates the views consult.  *)
(***************************************************************************)
semesters ==
    [sem \in {"sem1", "sem2"} |->
        IF sem = "sem1"
        THEN [registration_start |-> 1, registration_end |-> 2, add_drop_deadline |-> 3,
              start_date |-> 2]
        ELSE [registration_start |-> 0, registration_end |-> 1, add_drop_deadline |-> 2,
              start_date |-> 1]]

(***************************************************************************)
(* Enrollment.GRADE_CHOICES, listed in the order of the database's string  *)
(* comparison, which is what grade__lte uses.                              *)
(***************************************************************************)
GRADE_CHOICES == <<"", "A", "B", "C", "D", "F", "I", "IP", "W">>

GradeRank(g) == CHOOSE i \in 1..Len(GRADE_CHOICES) : GRADE_CHOICES[i] = g

\* grade__lte: string comparison grade <= minimum_grade
grade_lte(g, m) == GradeRank(g) <= GradeRank(m)

(***************************************************************************)
(* CourseOffering                                                          *)
(***************************************************************************)
available_seats(offering) == offering.capacity - offering.enrolled

is_full(offering) == offering.enrolled >= offering.capacity

(***************************************************************************)
(* Responses: the flash message and the view redirected to.                *)
(***************************************************************************)
Msg(m, v) == [msg |-> m, view |-> v, code |-> ""]

NotStarted        == Msg("Registration period has not started yet.", "course_registration")
AddDropEndedReg   == Msg("Add/drop period has ended.", "course_registration")
CapacityExceeded  == Msg("is full.", "course_registration")
DuplicateEnrollment == Msg("You are already enrolled", "course_registration")
MissingPrerequisite(c) == [msg |-> "Missing prerequisite", view |-> "course_registration", code |-> c]
Enrolled          == Msg("Successfully enrolled", "student_courses")
IntegrityError    == Msg("IntegrityError", "500")
Http404           == Msg("Http404", "404")
DeadlinePassed    == Msg("Add/drop period has ended.", "student_courses")
Dropped           == Msg("Successfully dropped", "student_courses")
NoRequest         == Msg("", "")
NoCurrentSemester == Msg("No active semester found for registration.", "student_courses")
RegistrationOpens == Msg("Registration opens on", "student_courses")
RegistrationEnded == Msg("Registration period has ended", "student_courses")
NotEnrolledInProgram == Msg("You are not enrolled in any program.", "student_courses")
Listing           == Msg("", "dashboard/course_registration.html")

(***************************************************************************)
(* Queries of register_course                                              *)
(***************************************************************************)
EnrollmentIds == 1..Len(enrollments)

\* unique_together: one row per (student, course_offering)
MaxEnrollmentId == Cardinality(Students) * Cardinality(OfferingIds)

\* Enrollment.objects.filter(student=user, course_offering=offering, is_active=True).exists()
already_enrolled_never(user, offering_id) == FALSE
already_enrolled(user, offering_id) ==
    \E e \in EnrollmentIds :
        /\ enrollments[e].student = user
        /\ enrollments[e].course_offering = offering_id
        /\ enrollments[e].is_active

\* the queryset `completed` of one prerequisite row, after the optional grade filter
completed(user, prereq) ==
    {e \in EnrollmentIds :
        /\ enrollments[e].student = user
        /\ offerings[enrollments[e].course_offering].course = prereq.prerequisite
        /\ enrollments[e].status = "completed"
        /\ enrollments[e].is_active
        /\ (prereq.minimum_grade # "" => grade_lte(enrollments[e].grade, prereq.minimum_grade))}

\* offering.course.required_prerequisites.all(), as indexes into the table
required_prerequisites(course) == {i \in 1..Len(prereqs) : prereqs[i].course = course}

\* the rows on which the loop over the prerequisites returns early
blocking_ignores_is_mandatory(user, course) ==
    {i \in required_prerequisites(course) : completed(user, prereqs[i]) = {}}
blocking(user, course) ==
    {i \in required_prerequisites(course) :
        completed(user, prereqs[i]) = {} /\ prereqs[i].is_mandatory}

Min(S) == CHOOSE x \in S : \A y \in S : x <= y

(***************************************************************************)
(* Enrollment.save() of a new row, as called by Enrollment.objects.create: *)
(* the offering's counter is incremented and saved first, then the row is  *)
(* inserted; the insert fails on unique_together (student, course_offering)*)
(* after the counter has been written.                                     *)
(***************************************************************************)
NewEnrollment(user, offering_id) ==
    [student |-> user, course_offering |-> offering_id, status |-> "registered",
     is_active |-> TRUE, grade |-> "", credits_earned |-> NULL]

violates_unique(user, offering_id) ==
    \E e \in EnrollmentIds :
        /\ enrollments[e].student = user
        /\ enrollments[e].course_offering = offering_id

Enrollment_create(user, offering_id) ==
    /\ offerings' = [offerings EXCEPT ![offering_id].enrolled = @ + 1]
    /\ IF violates_unique(user, offering_id)
       THEN /\ enrollments' = enrollments
            /\ response' = IntegrityError
       ELSE /\ enrollments' = Append(enrollments, NewEnrollment(user, offering_id))
            /\ response' = Enrolled

Reject(r) ==
    /\ response' = r
    /\ UNCHANGED <<offerings, enrollments>>

(***************************************************************************)
(* register_course (core/views.py)                                         *)
(***************************************************************************)
\* with the window closed at registration_end, as the listing view closes it
register_course_until_registration_end(user, offering_id) ==
    LET offering == offerings[offering_id]
        current_semester == semesters[offering.semester]
    IN  /\ offering.is_active
        /\ IF today < current_semester.registration_start
             THEN Reject(NotStarted)
           ELSE IF today > current_semester.registration_end
             THEN Reject(AddDropEndedReg)
           ELSE IF is_full(offering)
             THEN Reject(CapacityExceeded)
           ELSE IF already_enrolled(user, offering_id)
             THEN Reject(DuplicateEnrollment)
           ELSE IF blocking(user, offering.course) # {}
             THEN Reject(MissingPrerequisite(
                      prereqs[Min(blocking(user, offering.course))].prerequisite))
           ELSE Enrollment_create(user, offering_id)
        /\ UNCHANGED <<today, prereqs, programs, finance, rest>>
\* without the duplicate check and without the unique constraint on the insert
register_course_unguarded(user, offering_id) ==
    LET offering == offerings[offering_id]
        current_semester == semesters[offering.semester]
    IN  /\ offering.is_active
        /\ IF today < current_semester.registration_start
             THEN Reject(NotStarted)
           ELSE IF today > current_semester.add_drop_deadline
             THEN Reject(AddDropEndedReg)
           ELSE IF is_full(offering)
             THEN Reject(CapacityExceeded)
           ELSE IF blocking(user, offering.course) # {}
             THEN Reject(MissingPrerequisite(
                      prereqs[Min(blocking(user, offering.course))].prerequisite))
           ELSE /\ offerings' = [offerings EXCEPT ![offering_id].enrolled = @ + 1]
                /\ Len(enrollments) < MaxEnrollmentId
                /\ enrollments' = Append(enrollments, NewEnrollment(user, offering_id))
                /\ response' = Enrolled
        /\ UNCHANGED <<today, prereqs, programs, finance, rest>>
\* with the duplicate check made before the capacity check
register_course_duplicate_first(user, offering_id) ==
    LET offering == offerings[offering_id]
        current_semester == semesters[offering.semester]
    IN  /\ offering.is_active
        /\ IF today < current_semester.registration_start
             THEN Reject(NotStarted)
           ELSE IF today > current_semester.add_drop_deadline
             THEN Reject(AddDropEndedReg)
           ELSE IF already_enrolled(user, offering_id)
             THEN Reject(DuplicateEnrollment)
           ELSE IF is_full(offering)
             THEN Reject(CapacityExceeded)
           ELSE IF blocking(user, offering.course) # {}
             THEN Reject(MissingPrerequisite(
                      prereqs[Min(blocking(user, offering.course))].prerequisite))
           ELSE Enrollment_create(user, offering_id)
        /\ UNCHANGED <<today, prereqs, programs, finance, rest>>
register_course(user, offering_id) ==
    LET offering == offerings[offering_id]
        current_semester == semesters[offering.semester]
    IN  /\ offering.is_active
        /\ IF today < current_semester.registration_start
             THEN Reject(NotStarted)
           ELSE IF today > current_semester.add_drop_deadline
             THEN Reject(AddDropEndedReg)
           ELSE IF is_full(offering)
             THEN Reject(CapacityExceeded)
           ELSE IF already_enrolled(user, offering_id)
             THEN Reject(DuplicateEnrollment)
           ELSE IF blocking(user, offering.course) # {}
             THEN Reject(MissingPrerequisite(
                      prereqs[Min(blocking(user, offering.course))].prerequisite))
           ELSE Enrollment_create(user, offering_id)
        /\ UNCHANGED <<today, prereqs, programs, finance, rest>>

(***************************************************************************)
(* drop_course (core/views.py)                                             *)
(***************************************************************************)
drop_deadline_passed_incl(current_semester) == today >= current_semester.add_drop_deadline
drop_deadline_passed(current_semester) == today > current_semester.add_drop_deadline

withdrawn_keep_active(row) == [row EXCEPT !.status = "withdrawn"]
withdrawn(row) == [row EXCEPT !.is_active = FALSE, !.status = "withdrawn"]

\* with the enrollment looked up by id alone
drop_course_of_any_student(user, enrollment_id) ==
    /\ IF enrollment_id \notin EnrollmentIds
       THEN /\ response' = Http404
            /\ UNCHANGED <<offerings, enrollments>>
       ELSE LET enrollment == enrollments[enrollment_id]
                offering_id == enrollment.course_offering
                current_semester == semesters[offerings[offering_id].semester]
            IN  IF drop_deadline_passed(current_semester)
                  THEN /\ response' = DeadlinePassed
                       /\ UNCHANGED <<offerings, enrollments>>
                ELSE /\ offerings[offering_id].enrolled > -MaxOverdrop
                     /\ enrollments' = [enrollments EXCEPT ![enrollment_id] = withdrawn(@)]
                     /\ offerings' = [offerings EXCEPT ![offering_id].enrolled = @ - 1]
                     /\ response' = Dropped
    /\ UNCHANGED <<today, prereqs, programs, finance, rest>>
drop_course(user, enrollment_id) ==
    /\ IF enrollment_id \notin EnrollmentIds
       THEN /\ response' = Http404
            /\ UNCHANGED <<offerings, enrollments>>
       ELSE LET enrollment == enrollments[enrollment_id]
                offering_id == enrollment.course_offering
                current_semester == semesters[offerings[offering_id].semester]
            IN  IF enrollment.student # user
                  THEN /\ response' = Http404
                       /\ UNCHANGED <<offerings, enrollments>>
                ELSE IF drop_deadline_passed(current_semester)
                  THEN /\ response' = DeadlinePassed
                       /\ UNCHANGED <<offerings, enrollments>>
                ELSE /\ offerings[offering_id].enrolled > -MaxOverdrop
                     /\ enrollments' = [enrollments EXCEPT ![enrollment_id] = withdrawn(@)]
                     /\ offerings' = [offerings EXCEPT ![offering_id].enrolled = @ - 1]
                     /\ response' = Dropped
    /\ UNCHANGED <<today, prereqs, programs, finance, rest>>

(***************************************************************************)
(* Semester.save (core/models.py), as called by SemesterAdmin with the     *)
(* is_current box ticked or not: a semester saved as current first clears  *)
(* the flag of every semester.                                             *)
(***************************************************************************)
SemesterIds == {"sem1", "sem2"}

Semester_save_without_clearing(semester, flag) ==
    /\ is_current' = [is_current EXCEPT ![semester] = flag]
    /\ response' = NoRequest
    /\ UNCHANGED <<today, offerings, enrollments, prereqs, programs, finance, inflight,
                   saving, text_output, resources>>
Semester_save(semester, flag) ==
    /\ is_current' = IF flag
                     THEN [sem \in SemesterIds |-> sem = semester]
                     ELSE [is_current EXCEPT ![semester] = FALSE]
    /\ response' = NoRequest
    /\ UNCHANGED <<today, offerings, enrollments, prereqs, programs, finance, inflight,
                   saving, text_output, resources>>

(***************************************************************************)
(* course_registration (core/views.py): the listing of the offerings of    *)
(* the current semester.                                                   *)
(***************************************************************************)
\* Semester.objects.filter(is_current=True).first(), in the order -start_date
current_semesters == {sem \in SemesterIds : is_current[sem]}

first_current ==
    CHOOSE sem \in current_semesters :
        \A other \in current_semesters :
            semesters[other].start_date <= semesters[sem].start_date

\* the active ProgramEnrollment rows, as (student, program): s2 has joined no program
ProgramEnrollments == {"s1"} \X ProgramIds

\* ProgramEnrollment.objects.filter(student=request.user, is_active=True).first()
has_program_enrollment(user) == \E program \in ProgramIds : <<user, program>> \in ProgramEnrollments

course_registration(user) ==
    /\ response' =
          IF current_semesters = {} THEN NoCurrentSemester
          ELSE IF today < semesters[first_current].registration_start THEN RegistrationOpens
          ELSE IF today > semesters[first_current].registration_end THEN RegistrationEnded
          ELSE IF ~has_program_enrollment(user) THEN NotEnrolledInProgram
          ELSE Listing
    /\ UNCHANGED <<today, offerings, enrollments, prereqs, programs, finance, rest>>

(***************************************************************************)
(* register_course served by two workers at once.  A request is three      *)
(* database round trips apart: the offering is loaded and the checks run   *)
(* on this copy and on the tables as they are; Enrollment.save() adds 1 to *)
(* the copy's counter and saves the copy; the Enrollment row is inserted.  *)
(***************************************************************************)
\* get_object_or_404 and the checks; a request that passes keeps its copy of the offering
register_begin(w, user, offering_id) ==
    LET offering == offerings[offering_id]
        current_semester == semesters[offering.semester]
    IN  /\ inflight[w].pc = "idle"
        /\ offering.is_active
        /\ IF today < current_semester.registration_start
             THEN Reject(NotStarted) /\ UNCHANGED inflight
           ELSE IF today > current_semester.add_drop_deadline
             THEN Reject(AddDropEndedReg) /\ UNCHANGED inflight
           ELSE IF is_full(offering)
             THEN Reject(CapacityExceeded) /\ UNCHANGED inflight
           ELSE IF already_enrolled(user, offering_id)
             THEN Reject(DuplicateEnrollment) /\ UNCHANGED inflight
           ELSE IF blocking(user, offering.course) # {}
             THEN /\ Reject(MissingPrerequisite(
                         prereqs[Min(blocking(user, offering.course))].prerequisite))
                  /\ UNCHANGED inflight
           ELSE /\ inflight' = [inflight EXCEPT ![w] =
                                   [pc |-> "checked", user |-> user,
                                    offering_id |-> offering_id, offering |-> offering,
                                    outcome |-> NoRequest]]
                /\ UNCHANGED <<offerings, enrollments, response>>
        /\ UNCHANGED <<today, prereqs, programs, finance, saving, is_current, text_output,
                       resources>>

\* self.course_offering.enrolled += 1; self.course_offering.save()
saved_copy_from_database(w) ==
    [offerings[inflight[w].offering_id] EXCEPT !.enrolled = @ + 1]
saved_copy(w) == [inflight[w].offering EXCEPT !.enrolled = @ + 1]

register_save_offering(w) ==
    /\ inflight[w].pc = "checked"
    /\ offerings' = [offerings EXCEPT ![inflight[w].offering_id] = saved_copy(w)]
    /\ inflight' = [inflight EXCEPT ![w].pc = "saved", ![w].offering = saved_copy(w)]
    /\ UNCHANGED <<today, enrollments, prereqs, response, programs, finance, saving,
                   is_current, text_output, resources>>

\* super().save(): the insert, refused when the pair already has a row
register_insert(w) ==
    /\ inflight[w].pc = "saved"
    /\ IF violates_unique(inflight[w].user, inflight[w].offering_id)
       THEN /\ enrollments' = enrollments
            /\ response' = IntegrityError
       ELSE /\ enrollments' = Append(enrollments,
                                     NewEnrollment(inflight[w].user, inflight[w].offering_id))
            /\ response' = Enrolled
    /\ inflight' = [inflight EXCEPT ![w].pc = "done", ![w].outcome = response']
    /\ UNCHANGED <<today, offerings, prereqs, programs, finance, saving, is_current,
                   text_output, resources>>

\* the redirect is sent and the worker is free again
register_return(w) ==
    /\ inflight[w].pc = "done"
    /\ inflight' = [inflight EXCEPT ![w] = NotRunning]
    /\ UNCHANGED <<today, offerings, enrollments, prereqs, response, programs, finance,
                   saving, is_current, text_output, resources>>

(***************************************************************************)
(* EnrollmentAdmin (core/admin.py): grade, status, credits_earned and      *)
(* is_active of a stored row are edited and the row is saved; save() of a  *)
(* stored row (pk is not None) does not touch the offering's counter.      *)
(***************************************************************************)
STATUS_CHOICES == {"registered", "completed", "withdrawn", "failed"}

admin_save_enrollment(enrollment_id, grade, status, credits_earned, is_active) ==
    /\ enrollment_id \in EnrollmentIds
    /\ enrollments' = [enrollments EXCEPT ![enrollment_id] =
                          [@ EXCEPT !.grade = grade, !.status = status,
                                    !.credits_earned = credits_earned,
                                    !.is_active = is_active]]
    /\ response' = NoRequest
    /\ UNCHANGED <<today, offerings, prereqs, programs, finance, rest>>

\* the calendar advances
Tick ==
    /\ today < MaxDay
    /\ today' = today + 1
    /\ response' = NoRequest
    /\ UNCHANGED <<offerings, enrollments, prereqs, programs, finance, rest>>

(***************************************************************************)
(* Program fees (core/models.py, Program)                                  *)
(***************************************************************************)
total_fee_per_semester_no_exam(program) == program.tuition_fee + program.other_fees
total_fee_per_semester(program) ==
    program.tuition_fee + program.exam_fee + program.other_fees

total_program_fee(program) ==
    (total_fee_per_semester(program) * program.duration) + program.registration_fee

ExampleProgram ==
    [tuition_fee |-> 1000, exam_fee |-> 100, other_fees |-> 0,
     registration_fee |-> 50, duration |-> 2, total_credits |-> 6]

OtherProgram ==
    [tuition_fee |-> 300, exam_fee |-> 0, other_fees |-> 20,
     registration_fee |-> 10, duration |-> 3, total_credits |-> 3]

\* the fee fields and durations the registrar chooses from
ProgramRows ==
    [tuition_fee : {0, 1000}, exam_fee : {0, 100}, other_fees : {0, 20},
     registration_fee : {0, 50}, duration : {1, 2}, total_credits : {6}]

\* ProgramAdmin (core/admin.py): the registrar edits a program's fees, duration and
\* total credits
admin_save_program(program_id, row) ==
    /\ programs' = [programs EXCEPT ![program_id] = row]
    /\ response' = NoRequest
    /\ UNCHANGED <<today, offerings, enrollments, prereqs, finance, rest>>

(***************************************************************************)
(* ProgramEnrollment (core/models.py): the progress of a student in a      *)
(* program.  A percentage is kept as the fraction num/den, den > 0.        *)
(***************************************************************************)
\* Course.credits
Course_credits == [c \in {"c1", "c2"} |-> IF c = "c1" THEN 3 ELSE 4]

\* ProgramCurriculum rows: program.curriculum.all().values('course')
curriculum == [p \in ProgramIds |-> IF p = "p1" THEN {"c1"} ELSE {"c1", "c2"}]

\* `credits_earned or course.credits`: None and 0 are both falsy
credits_of(enrollment) ==
    IF enrollment.credits_earned = NULL \/ enrollment.credits_earned = <<0>>
    THEN Course_credits[offerings[enrollment.course_offering].course]
    ELSE enrollment.credits_earned[1]

\* the sum over the first n rows of the queryset completed_enrollments
RECURSIVE sum_completed_enrollments(_, _, _)
sum_completed_enrollments(n, student, program) ==
    IF n = 0 THEN 0
    ELSE sum_completed_enrollments(n - 1, student, program)
           + (IF /\ enrollments[n].student = student
                 /\ offerings[enrollments[n].course_offering].course \in curriculum[program]
                 /\ enrollments[n].status = "completed"
              THEN credits_of(enrollments[n]) ELSE 0)

credits_completed(student, program) ==
    sum_completed_enrollments(Len(enrollments), student, program)

progress_percentage_per_one(student, program) ==
    IF programs[program].total_credits > 0
    THEN [num |-> credits_completed(student, program),
          den |-> programs[program].total_credits]
    ELSE [num |-> 0, den |-> 1]
progress_percentage(student, program) ==
    IF programs[program].total_credits > 0
    THEN [num |-> credits_completed(student, program) * 100,
          den |-> programs[program].total_credits]
    ELSE [num |-> 0, den |-> 1]

\* progress >= n
progress_ge(progress, n) == progress.num >= n * progress.den

Progress(color) == [msg |-> "Progress", view |-> "admin", code |-> color]

\* ProgramEnrollmentAdmin.progress_display (core/admin.py): the colour of the list cell
progress_display(student, program) ==
    /\ <<student, program>> \in ProgramEnrollments
    /\ LET progress == progress_percentage(student, program)
       IN  response' = Progress(IF progress_ge(progress, 80) THEN "green"
                                ELSE IF progress_ge(progress, 50) THEN "orange"
                                ELSE "red")
    /\ UNCHANGED <<today, offerings, enrollments, prereqs, programs, finance, rest>>

(***************************************************************************)
(* AIService.fetch_online_resources (core/ai_service.py).  The text of the *)
(* model's reply is a sequence of tokens on one line: the opening and      *)
(* closing fence of a markdown block (three backquotes, the first followed *)
(* by json), the brackets and comma of a JSON                              *)
(* array, a JSON object with the three resource fields, and other text.    *)
(***************************************************************************)
MaxText == 4    \* replies of up to MaxText tokens

Tokens == {"FENCE-json", "FENCE", "[", "]", "{r}", ",", "x"}

Texts == UNION {[1..n -> Tokens] : n \in 0..MaxText}

\* what generate_content(...) and response.text give: an exception, no text at all
\* (response.text is None when the reply has no text part), or a text
Replies ==
    {[kind |-> "raise", text |-> <<>>], [kind |-> "None", text |-> <<>>]}
        \cup {[kind |-> "text", text |-> t] : t \in Texts}

CourseNames == {"Data Structures", "Calculus"}

Fallback(course_name, description) ==
    <<[title |-> "General resources for " \o course_name,
       description |-> description,
       url |-> "https://www.google.com/search?q=" \o course_name]>>

\* re.sub of the fence pattern: the opening fence at the start and the closing fence at
\* the end are removed
strip_fences(t) ==
    LET a == IF Len(t) > 0 /\ t[1] = "FENCE-json" THEN SubSeq(t, 2, Len(t)) ELSE t
    IN  IF Len(a) > 0 /\ a[Len(a)] = "FENCE" THEN SubSeq(a, 1, Len(a) - 1) ELSE a

\* re.search(r"\[.*\]", text, re.DOTALL): from the first "[" to the last "]" after it
search_array(t) ==
    LET opens == {i \in 1..Len(t) : t[i] = "["}
    IN  IF opens = {} THEN <<>>
        ELSE LET i == Min(opens)
                 closes == {j \in (i + 1)..Len(t) : t[j] = "]"}
             IN  IF closes = {} THEN <<>>
                 ELSE SubSeq(t, i, CHOOSE j \in closes : \A k \in closes : k <= j)

\* json.loads: a value is an object or an array of values; anything else, or text left
\* over after the value, is a JSONDecodeError
JSONDecodeError == [ok |-> FALSE, value |-> <<>>, next |-> 0]

RECURSIVE parse_value(_, _)
RECURSIVE parse_elements(_, _, _)
parse_elements(t, i, acc) ==
    LET v == parse_value(t, i)
    IN  IF ~v.ok THEN JSONDecodeError
        ELSE IF v.next <= Len(t) /\ t[v.next] = ","
          THEN parse_elements(t, v.next + 1, Append(acc, v.value))
        ELSE IF v.next <= Len(t) /\ t[v.next] = "]"
          THEN [ok |-> TRUE, value |-> Append(acc, v.value), next |-> v.next + 1]
        ELSE JSONDecodeError

parse_value(t, i) ==
    IF i > Len(t) THEN JSONDecodeError
    ELSE IF t[i] = "{r}"
      THEN [ok |-> TRUE,
            value |-> [title |-> "title", description |-> "description", url |-> "url"],
            next |-> i + 1]
    ELSE IF t[i] = "["
      THEN IF i + 1 <= Len(t) /\ t[i + 1] = "]"
           THEN [ok |-> TRUE, value |-> <<>>, next |-> i + 2]
           ELSE parse_elements(t, i + 1, <<>>)
    ELSE JSONDecodeError

json_loads(t) ==
    LET v == parse_value(t, 1)
    IN  IF v.ok /\ v.next = Len(t) + 1 THEN v ELSE JSONDecodeError

Returned(value) == [kind |-> "returned", value |-> value]

AttributeError == [kind |-> "AttributeError", value |-> <<>>]

fetch_online_resources(course_name) ==
    /\ text_output.kind # "not called"
    /\ resources' =
          IF text_output.kind = "raise"
            THEN Returned(Fallback(course_name, "Our AI service is temporarily unavailable."))
          ELSE IF text_output.kind = "None"
            THEN AttributeError
          ELSE LET extracted == search_array(strip_fences(text_output.text))
                   parsed == json_loads(extracted)
               IN  IF extracted = <<>>
                     THEN Returned(Fallback(course_name, "No online resources found."))
                   ELSE IF ~parsed.ok \/ parsed.value = <<>>
                     THEN Returned(Fallback(course_name,
                                            "No specific online resources found."))
                   ELSE Returned(parsed.value)
    /\ response' = NoRequest
    /\ UNCHANGED <<today, offerings, enrollments, prereqs, programs, finance, inflight,
                   saving, is_current, text_output>>

(***************************************************************************)
(* FinanceRecord.save (core/models.py)                                     *)
(***************************************************************************)
TRANSACTION_TYPES == {"fee", "payment", "refund", "adjustment"}

\* the term of one stored record in the generator summed into total_paid
paid_term_unsigned(r) == r.amount
paid_term(r) ==
    IF r.transaction_type \in {"payment", "refund"} THEN r.amount ELSE -r.amount

\* membership of record i in the queryset
\* FinanceRecord.objects.filter(student=..., program=...).exclude(pk=self.pk);
\* pk is 0 for a record that is not stored yet, and then nothing is excluded
previous_payments_any_program(i, pk, student, program) ==
    finance[i].student = student /\ i # pk
previous_payments(i, pk, student, program) ==
    /\ finance[i].student = student
    /\ finance[i].program = program
    /\ i # pk

\* sum(... for r in previous_payments), over the records 1..n
RECURSIVE sum_previous_payments(_, _, _, _)
sum_previous_payments(n, pk, student, program) ==
    IF n = 0 THEN 0
    ELSE sum_previous_payments(n - 1, pk, student, program)
           + (IF previous_payments(n, pk, student, program)
              THEN paid_term(finance[n]) ELSE 0)

\* the value save() assigns to self.balance_after
computed_balance_adjustment_paid(pk, student, program, transaction_type, amount) ==
    LET program_total_fee == total_program_fee(programs[program])
        total_paid == sum_previous_payments(Len(finance), pk, student, program)
        own == IF transaction_type \in {"payment", "refund", "adjustment"} THEN amount
               ELSE IF transaction_type \in {"fee"} THEN -amount
               ELSE 0
    IN  program_total_fee - (total_paid + own)
computed_balance(pk, student, program, transaction_type, amount) ==
    LET program_total_fee == total_program_fee(programs[program])
        total_paid == sum_previous_payments(Len(finance), pk, student, program)
        own == IF transaction_type \in {"payment", "refund"} THEN amount
               ELSE IF transaction_type \in {"fee", "adjustment"} THEN -amount
               ELSE 0
    IN  program_total_fee - (total_paid + own)

FinanceRow(pk, student, program, transaction_type, amount) ==
    [student |-> student, program |-> program, transaction_type |-> transaction_type,
     amount |-> amount,
     balance_after |-> computed_balance(pk, student, program, transaction_type, amount),
     transaction_date |-> today]

\* save() of a new record: the row is inserted with the next id
FinanceRecord_create(student, program, transaction_type, amount) ==
    /\ finance' = Append(finance, FinanceRow(0, student, program, transaction_type, amount))
    /\ response' = NoRequest
    /\ UNCHANGED <<today, offerings, enrollments, prereqs, programs, rest>>

\* a null program column (program is None on the instance)
NoProgram == "None"

NameError == Msg("NameError", "500")

\* self.program.total_program_fee() if self.program else Decimal('0.00'): models.py
\* binds no name Decimal (it imports models, settings, the validators, timezone and
\* timedelta), so the else branch raises NameError when it is evaluated
program_total_fee(program) ==
    IF program # NoProgram
    THEN [ok |-> TRUE, value |-> total_program_fee(programs[program])]
    ELSE [ok |-> FALSE, value |-> NameError]

\* save() of a new record whose program may be null: the first statement is the
\* evaluation of program_total_fee, the insert is the last
FinanceRecord_save_new(student, program, transaction_type, amount) ==
    /\ IF program_total_fee(program).ok
       THEN /\ finance' = Append(finance,
                  [student |-> student, program |-> program,
                   transaction_type |-> transaction_type, amount |-> amount,
                   balance_after |->
                       program_total_fee(program).value
                         - (sum_previous_payments(Len(finance), 0, student, program)
                              + paid_term([transaction_type |-> transaction_type,
                                           amount |-> amount])),
                   transaction_date |-> today])
            /\ response' = NoRequest
       ELSE /\ finance' = finance
            /\ response' = program_total_fee(program).value
    /\ UNCHANGED <<today, offerings, enrollments, prereqs, programs, rest>>

\* save() of a new record served by one of several workers: the queryset of the prior
\* records is read and balance_after computed on the instance first, the insert of
\* super().save() is a later statement, and nothing locks the ledger in between
FinanceRecord_save_compute(w, student, program, transaction_type, amount) ==
    /\ saving[w].pc = "idle"
    /\ saving' = [saving EXCEPT ![w] =
                     [pc |-> "computed",
                      row |-> FinanceRow(0, student, program, transaction_type, amount)]]
    /\ response' = NoRequest
    /\ UNCHANGED <<today, offerings, enrollments, prereqs, programs, finance, inflight,
                   is_current, text_output, resources>>

FinanceRecord_save_insert(w) ==
    /\ saving[w].pc = "computed"
    /\ finance' = Append(finance, saving[w].row)
    /\ saving' = [saving EXCEPT ![w] = NotRunning]
    /\ response' = NoRequest
    /\ UNCHANGED <<today, offerings, enrollments, prereqs, programs, inflight,
                   is_current, text_output, resources>>

\* the balance a replay in transaction_date order would give: only the records dated
\* up to the new record's date are counted
RECURSIVE sum_dated_up_to(_, _, _, _)
sum_dated_up_to(n, student, program, transaction_date) ==
    IF n = 0 THEN 0
    ELSE sum_dated_up_to(n - 1, student, program, transaction_date)
           + (IF /\ previous_payments(n, 0, student, program)
                 /\ finance[n].transaction_date <= transaction_date
              THEN paid_term(finance[n]) ELSE 0)

FinanceRecord_create_by_date(student, program, transaction_type, amount, transaction_date) ==
    /\ finance' = Append(finance,
          [FinanceRow(0, student, program, transaction_type, amount) EXCEPT
              !.transaction_date = transaction_date,
              !.balance_after =
                  total_program_fee(programs[program])
                    - (sum_dated_up_to(Len(finance), student, program, transaction_date)
                         + paid_term([transaction_type |-> transaction_type,
                                      amount |-> amount]))])
    /\ response' = NoRequest
    /\ UNCHANGED <<today, offerings, enrollments, prereqs, programs, rest>>

\* save() of a new record whose transaction_date was entered by hand (FinanceRecordAdmin
\* shows the field): the date is stored, the balance is computed as for any new record
FinanceRecord_create_dated(student, program, transaction_type, amount, transaction_date) ==
    /\ finance' = Append(finance,
          [FinanceRow(0, student, program, transaction_type, amount) EXCEPT
              !.transaction_date = transaction_date])
    /\ response' = NoRequest
    /\ UNCHANGED <<today, offerings, enrollments, prereqs, programs, rest>>

\* save() of a stored record whose type and amount were corrected (or left as they were)
FinanceRecord_update(pk, transaction_type, amount) ==
    /\ pk \in 1..Len(finance)
    /\ finance' = [finance EXCEPT ![pk] =
                      [FinanceRow(pk, @.student, @.program, transaction_type, amount)
                          EXCEPT !.transaction_date = finance[pk].transaction_date]]
    /\ response' = NoRequest
    /\ UNCHANGED <<today, offerings, enrollments, prereqs, programs, rest>>

(***************************************************************************)
(* Initial database                                                        *)
(***************************************************************************)
InitOfferings ==
    [o \in OfferingIds |->
        IF o = "o1"
        THEN [course |-> "c1", semester |-> "sem1", capacity |-> 1, enrolled |-> 0,
              is_active |-> TRUE]
        ELSE [course |-> "c2", semester |-> "sem2", capacity |-> 2, enrolled |-> 0,
              is_active |-> TRUE]]

\* c2 has no prerequisite, or requires c1 with at least a C, or recommends c1
PrereqTables ==
    { <<>>,
      <<[course |-> "c2", prerequisite |-> "c1", is_mandatory |-> TRUE,
         minimum_grade |-> "C"]>>,
      <<[course |-> "c2", prerequisite |-> "c1", is_mandatory |-> FALSE,
         minimum_grade |-> ""]>> }

InitPrograms == [p \in ProgramIds |-> IF p = "p1" THEN ExampleProgram ELSE OtherProgram]

Init ==
    /\ today = 0
    /\ offerings = InitOfferings
    /\ enrollments = <<>>
    /\ prereqs \in PrereqTables
    /\ response = NoRequest
    /\ programs = InitPrograms
    /\ finance = <<>>
    /\ InitRest

(***************************************************************************)
(* Spec: students register and drop while the calendar advances.           *)
(***************************************************************************)
Next ==
    \/ \E user \in Students, offering_id \in OfferingIds : register_course(user, offering_id)
    \/ \E user \in Students, enrollment_id \in 1..MaxEnrollmentId :
           drop_course(user, enrollment_id)
    \/ Tick

Spec == Init /\ [][Next]_vars

(***************************************************************************)
(* SpecOk: only the register_course and drop_course calls that succeed.    *)
(***************************************************************************)
NextOk ==
    \/ \E user \in Students, offering_id \in OfferingIds :
           register_course(user, offering_id) /\ response' = Enrolled
    \/ \E user \in Students, enrollment_id \in 1..MaxEnrollmentId :
           drop_course(user, enrollment_id) /\ response' = Dropped
    \/ Tick

SpecOk == Init /\ [][NextOk]_vars

(***************************************************************************)
(* SpecAppend: finance records are appended one after another, the fees    *)
(* of the programs stay as they are.                                       *)
(***************************************************************************)
InitLedger ==
    /\ today = 0
    /\ offerings = InitOfferings
    /\ enrollments = <<>>
    /\ prereqs = <<>>
    /\ response = NoRequest
    /\ programs = InitPrograms
    /\ finance = <<>>
    /\ InitRest

NextAppend ==
    \E student \in Students, program \in ProgramIds,
       transaction_type \in TRANSACTION_TYPES, amount \in Amounts :
        /\ Len(finance) < MaxAppend
        /\ FinanceRecord_create(student, program, transaction_type, amount)

SpecAppend == InitLedger /\ [][NextAppend]_vars

(***************************************************************************)
(* SpecLedger: records are appended, and stored records are saved again    *)
(* with their amount left as it was or corrected; one crediting and one    *)
(* charging transaction type are used.                                     *)
(***************************************************************************)
LedgerTypes == {"payment", "fee"}

NextLedger ==
    \/ \E student \in Students, program \in ProgramIds,
          transaction_type \in LedgerTypes, amount \in Amounts :
           /\ Len(finance) < MaxLedger
           /\ FinanceRecord_create(student, program, transaction_type, amount)
    \/ \E pk \in 1..MaxLedger, amount \in Amounts :
           /\ pk <= Len(finance)
           /\ FinanceRecord_update(pk, finance[pk].transaction_type, amount)

SpecLedger == InitLedger /\ [][NextLedger]_vars

(***************************************************************************)
(* SpecFee: the registrar sets the fees and the duration of the programs.  *)
(***************************************************************************)
NextFee == \E program_id \in ProgramIds, row \in ProgramRows : admin_save_program(program_id, row)

SpecFee == InitLedger /\ [][NextFee]_vars

(***************************************************************************)
(* SpecDated: records of one program are appended for both students, each  *)
(* dated today or back-dated to yesterday.                                 *)
(***************************************************************************)
MaxDated == 4       \* ledger length explored when records carry entered dates

InitDated ==
    /\ today = 1
    /\ offerings = InitOfferings
    /\ enrollments = <<>>
    /\ prereqs = <<>>
    /\ response = NoRequest
    /\ programs = InitPrograms
    /\ finance = <<>>
    /\ InitRest

NextDated ==
    \E student \in Students, transaction_type \in LedgerTypes, amount \in Amounts,
       transaction_date \in {0, 1} :
        /\ Len(finance) < MaxDated
        /\ FinanceRecord_create_dated(student, "p1", transaction_type, amount,
                                      transaction_date)

SpecDated == InitDated /\ [][NextDated]_vars

(***************************************************************************)
(* SpecSaveRace: two workers append FinanceRecords; the computation of     *)
(* balance_after and the insert of one save() may be separated by the      *)
(* steps of the other.                                                     *)
(***************************************************************************)
Computing == {w \in Workers : saving[w].pc = "computed"}

NextSaveRace ==
    \/ \E w \in Workers, student \in Students, program \in ProgramIds,
          transaction_type \in LedgerTypes, amount \in Amounts :
           /\ Len(finance) + Cardinality(Computing) < MaxAppend
           /\ FinanceRecord_save_compute(w, student, program, transaction_type, amount)
    \/ \E w \in Workers : FinanceRecord_save_insert(w)

SpecSaveRace == InitLedger /\ [][NextSaveRace]_vars

(***************************************************************************)
(* SpecNullProgram: records are appended with a program or without one.    *)
(***************************************************************************)
NextNullProgram ==
    \E student \in Students, program \in ProgramIds \cup {NoProgram},
       transaction_type \in TRANSACTION_TYPES, amount \in Amounts :
        /\ Len(finance) < MaxLedger
        /\ FinanceRecord_save_new(student, program, transaction_type, amount)

SpecNullProgram == InitLedger /\ [][NextNullProgram]_vars

(***************************************************************************)
(* SpecOrder: c2 has two prerequisite rows, c1 and c3 in either order of   *)
(* the table, each mandatory or not and without a minimum grade.  Students *)
(* register for both offerings while the calendar advances, and the        *)
(* registrar marks registered enrollments as completed.                    *)
(***************************************************************************)
OrderTables ==
    { <<[course |-> "c2", prerequisite |-> first, is_mandatory |-> m1, minimum_grade |-> ""],
        [course |-> "c2", prerequisite |-> second, is_mandatory |-> m2, minimum_grade |-> ""]>> :
          first \in {"c1", "c3"}, second \in {"c1", "c3"}, m1 \in BOOLEAN, m2 \in BOOLEAN }

InitOrder ==
    /\ today = 0
    /\ offerings = InitOfferings
    /\ enrollments = <<>>
    \* unique_together (course, prerequisite)
    /\ prereqs \in {t \in OrderTables : t[1].prerequisite # t[2].prerequisite}
    /\ response = NoRequest
    /\ programs = InitPrograms
    /\ finance = <<>>
    /\ InitRest

NextOrder ==
    \/ \E user \in Students, offering_id \in OfferingIds : register_course(user, offering_id)
    \/ \E enrollment_id \in 1..MaxEnrollmentId :
           /\ enrollment_id \in EnrollmentIds
           /\ enrollments[enrollment_id].status = "registered"
           /\ admin_save_enrollment(enrollment_id, "A", "completed", NULL, TRUE)
    \/ Tick

SpecOrder == InitOrder /\ [][NextOrder]_vars

(***************************************************************************)
(* Vocabulary of the properties, written from the tables alone             *)
(***************************************************************************)
(* SpecPrereq: c2 requires or recommends c1, with or without a minimum     *)
(* grade.  Student s1 holds an enrollment in o1 (course c1) which the      *)
(* registrar grades through the admin, once, while it is still registered, *)
(* and students register for o2 and drop.                                  *)
(***************************************************************************)
MinimumGrades == {"", "A", "B", "C", "D", "F"}

PrereqRows ==
    { <<[course |-> "c2", prerequisite |-> "c1", is_mandatory |-> m, minimum_grade |-> g]>> :
          m \in BOOLEAN, g \in MinimumGrades }

\* day 1: both semesters are open; day 3: the add/drop deadline of sem2 has passed
InitPrereq ==
    /\ today \in {1, 3}
    /\ offerings = [InitOfferings EXCEPT !["o1"].enrolled = 1]
    /\ enrollments = <<NewEnrollment("s1", "o1")>>
    /\ prereqs \in PrereqRows
    /\ response = NoRequest
    /\ programs = InitPrograms
    /\ finance = <<>>
    /\ InitRest

NextPrereq ==
    \/ \E user \in Students : register_course(user, "o2")
    \/ \E user \in Students, enrollment_id \in 1..MaxEnrollmentId :
           drop_course(user, enrollment_id)
    \/ \E i \in 1..Len(GRADE_CHOICES), status \in STATUS_CHOICES, is_active \in BOOLEAN :
           /\ enrollments[1].status = "registered"
           /\ admin_save_enrollment(1, GRADE_CHOICES[i], status, enrollments[1].credits_earned,
                                 is_active)

SpecPrereq == InitPrereq /\ [][NextPrereq]_vars

(***************************************************************************)
(* SpecProgress: student s1 holds enrollments in o1 (c1) and o2 (c2); the  *)
(* registrar records their outcome and the credits earned, edits the total *)
(* credits of the programs, and looks at the progress column.              *)
(***************************************************************************)
TotalCredits == {0 - 3, 0, 3, 6}

CreditsEarned == {NULL, <<0>>, <<2>>, <<3>>}

InitProgress ==
    /\ today = 1
    /\ offerings = [o \in OfferingIds |-> [InitOfferings[o] EXCEPT !.enrolled = 1]]
    /\ enrollments = <<NewEnrollment("s1", "o1"), NewEnrollment("s1", "o2")>>
    /\ prereqs = <<>>
    /\ response = NoRequest
    /\ programs = InitPrograms
    /\ finance = <<>>
    /\ InitRest

NextProgress ==
    \/ \E e \in 1..2, status \in {"registered", "completed"}, credits_earned \in CreditsEarned :
           admin_save_enrollment(e, enrollments[e].grade, status, credits_earned,
                                 enrollments[e].is_active)
    \/ \E program_id \in ProgramIds, total_credits \in TotalCredits :
           admin_save_program(program_id,
                              [programs[program_id] EXCEPT !.total_credits = total_credits])
    \/ \E student \in Students, program \in ProgramIds : progress_display(student, program)

SpecProgress == InitProgress /\ [][NextProgress]_vars

(***************************************************************************)
(* SpecRace: two workers serve register_course requests at the same time;  *)
(* o1 has one free seat.                                                   *)
(***************************************************************************)
InitRace ==
    /\ today = 1
    /\ offerings = InitOfferings
    /\ enrollments = <<>>
    /\ prereqs = <<>>
    /\ response = NoRequest
    /\ programs = InitPrograms
    /\ finance = <<>>
    /\ InitRest

NextRace ==
    \/ \E w \in Workers, user \in Students, offering_id \in OfferingIds :
           register_begin(w, user, offering_id)
    \/ \E w \in Workers : register_save_offering(w)
    \/ \E w \in Workers : register_insert(w)
    \/ \E w \in Workers : register_return(w)

SpecRace == InitRace /\ [][NextRace]_vars

(***************************************************************************)
(* SpecResources: fetch_online_resources is called on every outcome of the *)
(* Gemini call.                                                            *)
(***************************************************************************)
InitResources ==
    /\ today = 1
    /\ offerings = InitOfferings
    /\ enrollments = <<>>
    /\ prereqs = <<>>
    /\ response = NoRequest
    /\ programs = InitPrograms
    /\ finance = <<>>
    /\ inflight = [w \in Workers |-> NotRunning]
    /\ saving = [w \in Workers |-> NotRunning]
    /\ is_current = [sem \in {"sem1", "sem2"} |-> FALSE]
    /\ text_output \in Replies
    /\ resources = [kind |-> "not called", value |-> <<>>]

NextResources == \E course_name \in CourseNames : fetch_online_resources(course_name)

SpecResources == InitResources /\ [][NextResources]_vars

(***************************************************************************)
(* SpecWindow: students register while the calendar advances through the   *)
(* registration period and the add/drop period; no course has a            *)
(* prerequisite and nobody drops.                                          *)
(***************************************************************************)
InitWindow ==
    /\ today = 0
    /\ offerings = InitOfferings
    /\ enrollments = <<>>
    /\ prereqs = <<>>
    /\ response = NoRequest
    /\ programs = InitPrograms
    /\ finance = <<>>
    /\ InitRest

NextWindow ==
    \/ \E user \in Students, offering_id \in OfferingIds : register_course(user, offering_id)
    \/ Tick

SpecWindow == InitWindow /\ [][NextWindow]_vars

(***************************************************************************)
(* SpecSemester: the registrar marks semesters current or not; students    *)
(* open the registration listing and register.  Day 0 is before the        *)
(* registration of sem1, day 2 after the registration_end of sem2.         *)
(***************************************************************************)
InitSemester ==
    /\ today \in {0, 1, 2}
    /\ offerings = InitOfferings
    /\ enrollments = <<>>
    /\ prereqs = <<>>
    /\ response = NoRequest
    /\ programs = InitPrograms
    /\ finance = <<>>
    /\ InitRest

NextSemester ==
    \/ \E semester \in SemesterIds, flag \in BOOLEAN : Semester_save(semester, flag)
    \/ \E user \in Students : course_registration(user)
    \/ \E user \in Students, offering_id \in OfferingIds : register_course(user, offering_id)

SpecSemester == InitSemester /\ [][NextSemester]_vars

(***************************************************************************)
ActiveRows(offering_id) ==
    {e \in EnrollmentIds :
        enrollments[e].course_offering = offering_id /\ enrollments[e].is_active}

HasActiveRow(user, offering_id) ==
    \E e \in ActiveRows(offering_id) : enrollments[e].student = user

WindowOpen(offering_id) ==
    LET sem == semesters[offerings[offering_id].semester]
    IN  sem.registration_start <= today /\ today <= sem.add_drop_deadline

DeadlineOf(e) == semesters[offerings[enrollments[e].course_offering].semester].add_drop_deadline

RegisterRejections ==
    {NotStarted, AddDropEndedReg, CapacityExceeded, DuplicateEnrollment}
        \cup {MissingPrerequisite(c) : c \in {"c1", "c2"}}

(***************************************************************************)
(* C1: for every offering, after any sequence of successful                *)
(* register_course and drop_course calls, enrolled equals the number of    *)
(* Enrollment rows that reference the offering and are active.             *)
(* Checked under SpecOk, it fails: drop_course does not look at is_active, *)
(* so a second drop of the same enrollment decrements the counter again.   *)
(***************************************************************************)
C1_EnrolledEqualsActiveCount ==
    \A o \in OfferingIds : offerings[o].enrolled = Cardinality(ActiveRows(o))

(***************************************************************************)
(* C2: register_course on a full offering is rejected (with the capacity   *)
(* message when the window is open) and creates no Enrollment; when        *)
(* enrolled < capacity and the window, duplicate and prerequisite checks   *)
(* pass, it succeeds, appends exactly one active 'registered' Enrollment   *)
(* and increases enrolled by exactly 1.                                    *)
(* It fails: after a drop the withdrawn row still occupies the unique      *)
(* (student, course_offering) pair, so the insert raises IntegrityError    *)
(* after the counter has been incremented.                                 *)
(***************************************************************************)
C2_RegisterContract ==
    [][\A user \in Students, o \in OfferingIds :
          register_course(user, o) =>
            /\ offerings[o].enrolled >= offerings[o].capacity =>
                  /\ response' \in RegisterRejections
                  /\ (WindowOpen(o) => response' = CapacityExceeded)
                  /\ enrollments' = enrollments
            /\ ( /\ offerings[o].enrolled < offerings[o].capacity
                 /\ WindowOpen(o)
                 /\ ~HasActiveRow(user, o)
                 /\ blocking(user, offerings[o].course) = {} ) =>
                  /\ response' = Enrolled
                  /\ enrollments' = Append(enrollments,
                        [student |-> user, course_offering |-> o, status |-> "registered",
                         is_active |-> TRUE, grade |-> "", credits_earned |-> NULL])
                  /\ offerings' = [offerings EXCEPT ![o].enrolled = @ + 1]
      ]_vars

(***************************************************************************)
(* C3, as stated: a register_course call by a student who already has an   *)
(* active Enrollment for the offering is answered with the duplicate       *)
(* message and changes neither the Enrollment table nor the counter.       *)
(* The message differs when an earlier check fires (offering full, window  *)
(* closed).                                                                *)
(***************************************************************************)
C3_DuplicateAlwaysReported ==
    [][\A user \in Students, o \in OfferingIds :
          (register_course(user, o) /\ HasActiveRow(user, o)) =>
            /\ response' = DuplicateEnrollment
            /\ enrollments' = enrollments
            /\ offerings' = offerings
      ]_vars

(***************************************************************************)
(* C3, amended: such a call is always rejected and changes neither the     *)
(* Enrollment table nor any counter; the rejection reported is the         *)
(* duplicate one when the window is open and the offering is not full,     *)
(* and the window or capacity rejection otherwise.                         *)
(***************************************************************************)
C3_DuplicateRejected ==
    [][\A user \in Students, o \in OfferingIds :
          (register_course(user, o) /\ HasActiveRow(user, o)) =>
            /\ enrollments' = enrollments
            /\ offerings' = offerings
            /\ IF ~WindowOpen(o)
                 THEN response' \in {NotStarted, AddDropEndedReg}
               ELSE IF offerings[o].enrolled >= offerings[o].capacity
                 THEN response' = CapacityExceeded
               ELSE response' = DuplicateEnrollment
      ]_vars

\* a second attempt was answered with the duplicate message, the first row is still active
C3_Witness ==
    /\ response = DuplicateEnrollment
    /\ \E o \in OfferingIds : ActiveRows(o) # {} /\ offerings[o].enrolled < offerings[o].capacity

(***************************************************************************)
(* C4: drop_course by the owner of an enrollment on a date strictly after  *)
(* the semester's add_drop_deadline is rejected with the deadline message  *)
(* and leaves every enrollment and every counter unchanged; on the         *)
(* deadline date or earlier it is not rejected for this reason.            *)
(***************************************************************************)
C4_DropAfterDeadline ==
    [][\A user \in Students, e \in EnrollmentIds :
          (drop_course(user, e) /\ enrollments[e].student = user) =>
            IF today > DeadlineOf(e)
            THEN /\ response' = DeadlinePassed
                 /\ enrollments' = enrollments
                 /\ offerings' = offerings
            ELSE response' # DeadlinePassed
      ]_vars

\* a drop was refused after the deadline while the row is still registered and counted
C4_Witness ==
    /\ response = DeadlinePassed
    /\ \E e \in EnrollmentIds :
          /\ today > DeadlineOf(e)
          /\ enrollments[e].is_active
          /\ enrollments[e].status = "registered"
          /\ offerings[enrollments[e].course_offering].enrolled = 1

(***************************************************************************)
(* C5: a drop_course call that passes the deadline check sets the          *)
(* enrollment to 'withdrawn' and inactive, decreases the counter of its    *)
(* offering by exactly 1 and leaves every other enrollment and every       *)
(* other offering unchanged.                                               *)
(***************************************************************************)
C5_DropEffect ==
    [][\A user \in Students, e \in EnrollmentIds :
          ( /\ drop_course(user, e)
            /\ enrollments[e].student = user
            /\ today <= DeadlineOf(e) ) =>
            /\ response' = Dropped
            /\ Len(enrollments') = Len(enrollments)
            /\ enrollments'[e].status = "withdrawn"
            /\ enrollments'[e].is_active = FALSE
            /\ enrollments'[e].student = enrollments[e].student
            /\ enrollments'[e].course_offering = enrollments[e].course_offering
            /\ enrollments'[e].grade = enrollments[e].grade
            /\ enrollments'[e].credits_earned = enrollments[e].credits_earned
            /\ \A f \in EnrollmentIds \ {e} : enrollments'[f] = enrollments[f]
            /\ \A o \in OfferingIds :
                  offerings'[o] =
                    IF o = enrollments[e].course_offering
                    THEN [offerings[o] EXCEPT !.enrolled = offerings[o].enrolled - 1]
                    ELSE offerings[o]
      ]_vars

\* a row was dropped while another row, in the other offering, stays registered
C5_Witness ==
    /\ response = Dropped
    /\ \E e, f \in EnrollmentIds :
          /\ enrollments[e].status = "withdrawn" /\ ~enrollments[e].is_active
          /\ enrollments[f].is_active
          /\ enrollments[f].course_offering # enrollments[e].course_offering

(***************************************************************************)
(* Vocabulary of the ledger properties                                     *)
(***************************************************************************)
\* the signed amount of a record: payment and refund +amount, fee and adjustment -amount
Signed(r) ==
    CASE r.transaction_type \in {"payment", "refund"} -> r.amount
      [] r.transaction_type \in {"fee", "adjustment"} -> 0 - r.amount

SameKey(i, j) ==
    finance[i].student = finance[j].student /\ finance[i].program = finance[j].program

\* sum of the signed amounts of records 1..n that belong to the ledger of record k
RECURSIVE SignedPrefix(_, _)
SignedPrefix(n, k) ==
    IF n = 0 THEN 0
    ELSE SignedPrefix(n - 1, k) + (IF SameKey(n, k) THEN Signed(finance[n]) ELSE 0)

RECURSIVE SignedOver(_)
SignedOver(ids) ==
    IF ids = {} THEN 0
    ELSE LET j == CHOOSE x \in ids : TRUE IN Signed(finance[j]) + SignedOver(ids \ {j})

(***************************************************************************)
(* C6: when records are appended one after another and the fees do not     *)
(* change, the Kth record's balance_after equals total_program_fee of its  *)
(* program minus the sum of the signed amounts of the records 1..K of the  *)
(* same (student, program).                                                *)
(***************************************************************************)
C6_AppendedBalance ==
    \A k \in 1..Len(finance) :
        finance[k].balance_after =
            total_program_fee(programs[finance[k].program]) - SignedPrefix(k, k)

\* three records of one (student, program), charges and payments mixed
C6_Witness ==
    /\ Len(finance) = 3
    /\ SameKey(1, 2) /\ SameKey(2, 3)
    /\ finance[1].transaction_type = "fee"
    /\ finance[2].transaction_type = "payment"
    /\ finance[3].transaction_type = "adjustment"

(***************************************************************************)
(* C7: in every reachable state, also after a stored record was saved      *)
(* again while later records of the same (student, program) exist, each    *)
(* record's balance_after equals total_program_fee minus the sum of the    *)
(* signed amounts of the records of that (student, program) whose id is    *)
(* at most its own.                                                        *)
(* It fails: save() of a stored record sums every other record of the      *)
(* ledger, the later ones included, although its comment says "previous".  *)
(***************************************************************************)
C7_BalanceCoversIdsUpToOwn ==
    \A k \in 1..Len(finance) :
        LET upto == {j \in 1..Len(finance) : j <= k /\ SameKey(j, k)}
        IN  finance[k].balance_after + SignedOver(upto) =
                total_program_fee(programs[finance[k].program])

(***************************************************************************)
(* C8: for a new record, a payment or refund of amount a makes             *)
(* balance_after the balance before it minus a, a fee or adjustment makes  *)
(* it the balance before it plus a (the balance before is the program's    *)
(* total fee for an empty history, else the balance_after of the last      *)
(* record of the same student and program); with a total fee of 2250, a    *)
(* payment of 500 gives 1750 and a following fee of 200 gives 1950.        *)
(***************************************************************************)
C8_NewRecordMovesBalance ==
    [][ LET n == Len(finance')
            new == finance'[n]
            prior == {j \in 1..Len(finance) :
                         finance[j].student = new.student /\ finance[j].program = new.program}
            before == IF prior = {} THEN total_program_fee(programs[new.program])
                      ELSE finance[CHOOSE j \in prior : \A i \in prior : i <= j].balance_after
        IN  /\ n = Len(finance) + 1
            /\ new.transaction_type \in {"payment", "refund"} =>
                   new.balance_after = before - new.amount
            /\ new.transaction_type \in {"fee", "adjustment"} =>
                   new.balance_after = before + new.amount
            /\ ( /\ n = 1
                 /\ total_program_fee(programs[new.program]) = 2250
                 /\ new.transaction_type = "payment" /\ new.amount = 500 ) =>
                   new.balance_after = 1750
            /\ ( /\ n = 2
                 /\ total_program_fee(programs[new.program]) = 2250
                 /\ finance[1].student = new.student /\ finance[1].program = new.program
                 /\ finance[1].transaction_type = "payment" /\ finance[1].amount = 500
                 /\ new.transaction_type = "fee" /\ new.amount = 200 ) =>
                   new.balance_after = 1950
      ]_vars

\* the example of the specification: payment 500, then fee 200, on a program costing 2250
C8_Witness ==
    /\ Len(finance) = 2
    /\ SameKey(1, 2)
    /\ total_program_fee(programs[finance[1].program]) = 2250
    /\ finance[1].transaction_type = "payment" /\ finance[1].amount = 500
    /\ finance[1].balance_after = 1750
    /\ finance[2].transaction_type = "fee" /\ finance[2].amount = 200
    /\ finance[2].balance_after = 1950

(***************************************************************************)
(* C9: total_program_fee equals (tuition_fee + exam_fee + other_fees) *    *)
(* duration + registration_fee for every combination of fees and duration; *)
(* for tuition 1000, exam 100, other 0, registration 50, duration 2 it is  *)
(* 2250.                                                                   *)
(***************************************************************************)
C9_TotalProgramFee ==
    \A p \in ProgramIds :
        LET row == programs[p]
        IN  /\ total_program_fee(row) =
                 (row.tuition_fee + row.exam_fee + row.other_fees) * row.duration
                    + row.registration_fee
            /\ ( /\ row.tuition_fee = 1000 /\ row.exam_fee = 100 /\ row.other_fees = 0
                 /\ row.registration_fee = 50 /\ row.duration = 2 ) =>
                   total_program_fee(row) = 2250

\* the registrar has given the second program the fees of the example
C9_Witness ==
    /\ programs["p2"] = ExampleProgram
    /\ total_program_fee(programs["p2"]) = 2250
    /\ programs["p1"].exam_fee = 100 /\ programs["p1"].other_fees = 20
    /\ programs["p1"].duration = 1

(***************************************************************************)
(* C10: the balance_after computed for a new record of (S, P) is not       *)
(* changed by appending or changing a record of another student or of      *)
(* another program, and a save writes one record only: every other stored  *)
(* record keeps all its fields.                                            *)
(***************************************************************************)
C10_LedgersAreIndependent ==
    [][ LET touched == {i \in 1..Len(finance') :
                           i > Len(finance) \/ finance'[i] # finance[i]}
        IN  /\ Len(finance') >= Len(finance)
            /\ Cardinality(touched) <= 1
            /\ \A S \in Students, P \in ProgramIds :
                  (\A i \in touched : finance'[i].student # S \/ finance'[i].program # P) =>
                     \A t \in TRANSACTION_TYPES, a \in Amounts :
                        computed_balance(0, S, P, t, a)' = computed_balance(0, S, P, t, a)
      ]_vars

\* two ledgers side by side: the second record's balance ignores the first record
C10_Witness ==
    /\ Len(finance) = 2
    /\ finance[1].student = "s1" /\ finance[1].program = "p1"
    /\ finance[2].student = "s1" /\ finance[2].program = "p2"
    /\ finance[2].transaction_type = "payment"
    /\ finance[2].balance_after = total_program_fee(programs["p2"]) - finance[2].amount
    /\ finance[1].balance_after # total_program_fee(programs["p1"])

\* the records of one (student, program), in id order
LedgerOf(student, program) ==
    SelectSeq(finance, LAMBDA r : r.student = student /\ r.program = program)

(***************************************************************************)
(* C11: the balance_after of an appended record is determined by the       *)
(* insertion order only: two ledgers of the same program whose first n     *)
(* records agree in type and amount have the same nth balance_after,       *)
(* whatever transaction_date any of these records carries.                 *)
(***************************************************************************)
C11_BalanceIgnoresDates ==
    \A s \in Students, t \in Students, p \in ProgramIds :
        LET a == LedgerOf(s, p)
            b == LedgerOf(t, p)
        IN  \A n \in 1..Len(a) :
               ( /\ n <= Len(b)
                 /\ \A i \in 1..n : /\ a[i].transaction_type = b[i].transaction_type
                                    /\ a[i].amount = b[i].amount ) =>
                  a[n].balance_after = b[n].balance_after

\* one student's payment is back-dated behind the fee before it, the other's is not
C11_Witness ==
    LET a == LedgerOf("s1", "p1")
        b == LedgerOf("s2", "p1")
    IN  /\ Len(a) = 2 /\ Len(b) = 2
        /\ a[1].transaction_type = "fee" /\ b[1].transaction_type = "fee"
        /\ a[2].transaction_type = "payment" /\ b[2].transaction_type = "payment"
        /\ a[1].transaction_date = 1 /\ a[2].transaction_date = 0
        /\ b[1].transaction_date = 1 /\ b[2].transaction_date = 1
        /\ a[1].amount = b[1].amount /\ a[2].amount = b[2].amount
        /\ a[2].balance_after = b[2].balance_after

(***************************************************************************)
(* Vocabulary of the prerequisite properties                               *)
(***************************************************************************)
\* the student has a completed, active enrollment in an offering of the prerequisite course
HasQualifying(user, prereq) ==
    \E e \in EnrollmentIds :
        /\ enrollments[e].student = user
        /\ offerings[enrollments[e].course_offering].course = prereq.prerequisite
        /\ enrollments[e].status = "completed"
        /\ enrollments[e].is_active

\* some mandatory prerequisite of the course has no qualifying enrollment of the student
MandatoryUnmet(user, course) ==
    \E i \in required_prerequisites(course) :
        prereqs[i].is_mandatory /\ ~HasQualifying(user, prereqs[i])

NoneMandatory(course) == \A i \in required_prerequisites(course) : ~prereqs[i].is_mandatory

PrerequisiteRejections == {MissingPrerequisite(c) : c \in {"c1", "c2"}}

(***************************************************************************)
(* C12, as stated: whenever the course has a mandatory prerequisite for    *)
(* which the student has no completed, active enrollment, register_course  *)
(* answers with the missing-prerequisite message and creates no            *)
(* Enrollment; when no prerequisite of the course is mandatory the         *)
(* missing-prerequisite message is never given.                            *)
(* The message differs when an earlier check fires (already enrolled,      *)
(* offering full, window closed).                                          *)
(***************************************************************************)
C12_MissingPrerequisiteAlwaysReported ==
    [][\A user \in Students, o \in OfferingIds :
          register_course(user, o) =>
            /\ MandatoryUnmet(user, offerings[o].course) =>
                  /\ response' \in PrerequisiteRejections
                  /\ enrollments' = enrollments
            /\ NoneMandatory(offerings[o].course) =>
                  response' \notin PrerequisiteRejections
      ]_vars

(***************************************************************************)
(* C12, amended: such a call is always rejected and creates no Enrollment; *)
(* the rejection is the missing-prerequisite one, naming the prerequisite, *)
(* when the window is open, the offering is not full and the student has   *)
(* no active enrollment in it, and the window, capacity or duplicate       *)
(* rejection otherwise.  A course none of whose prerequisites is mandatory *)
(* never gets the missing-prerequisite rejection.                          *)
(***************************************************************************)
C12_MissingPrerequisiteRejected ==
    [][\A user \in Students, o \in OfferingIds :
          register_course(user, o) =>
            /\ MandatoryUnmet(user, offerings[o].course) =>
                  /\ response' \in RegisterRejections
                  /\ enrollments' = enrollments
                  /\ offerings' = offerings
                  /\ IF ~WindowOpen(o)
                       THEN response' \in {NotStarted, AddDropEndedReg}
                     ELSE IF offerings[o].enrolled >= offerings[o].capacity
                       THEN response' = CapacityExceeded
                     ELSE IF HasActiveRow(user, o)
                       THEN response' = DuplicateEnrollment
                     ELSE response' \in PrerequisiteRejections
            /\ NoneMandatory(offerings[o].course) =>
                  response' \notin PrerequisiteRejections
      ]_vars

\* a request for c2 was refused for c1 although the student's history holds a completed
\* enrollment in c1: it is not active, and nobody is enrolled in o2
C12_Witness ==
    /\ response = MissingPrerequisite("c1")
    /\ prereqs[1].is_mandatory
    /\ enrollments[1].status = "completed" /\ ~enrollments[1].is_active
    /\ Len(enrollments) = 1
    /\ offerings["o2"].enrolled = 0

\* the ranking of the letter grades, best first
LetterGrades == <<"A", "B", "C", "D", "F">>

IsLetter(g) == \E i \in 1..Len(LetterGrades) : LetterGrades[i] = g

LetterRank(g) == CHOOSE i \in 1..Len(LetterGrades) : LetterGrades[i] = g

\* the grade is a letter grade at least as good as the minimum
MeetsThreshold(g, minimum_grade) ==
    IsLetter(g) /\ LetterRank(g) <= LetterRank(minimum_grade)

(***************************************************************************)
(* C13: when a mandatory prerequisite has a minimum grade, register_course *)
(* succeeds only if the student has a completed, active enrollment in the  *)
(* prerequisite course whose grade is a letter grade A-F at least as good  *)
(* as the minimum; W, I, IP and the empty grade never satisfy it.          *)
(* It fails: grade__lte is a string comparison and the empty grade is      *)
(* below every letter, so a completed enrollment without a grade passes.   *)
(***************************************************************************)
C13_GradeMeetsThreshold ==
    [][\A user \in Students, o \in OfferingIds :
          (register_course(user, o) /\ response' = Enrolled) =>
            \A i \in required_prerequisites(offerings[o].course) :
               (prereqs[i].is_mandatory /\ prereqs[i].minimum_grade # "") =>
                  \E e \in EnrollmentIds :
                     /\ enrollments[e].student = user
                     /\ offerings[enrollments[e].course_offering].course
                           = prereqs[i].prerequisite
                     /\ enrollments[e].status = "completed"
                     /\ enrollments[e].is_active
                     /\ MeetsThreshold(enrollments[e].grade, prereqs[i].minimum_grade)
      ]_vars

(***************************************************************************)
(* C14, as stated: progress_percentage() is 0 when the program's           *)
(* total_credits is 0 and 100 * credits_completed() / total_credits        *)
(* otherwise.                                                              *)
(* It differs for a negative total_credits, which the field admits: the    *)
(* method returns 0 there as well.                                         *)
(***************************************************************************)
C14_ProgressZeroOnlyAtZero ==
    \A sp \in ProgramEnrollments :
        LET progress == progress_percentage(sp[1], sp[2])
            total_credits == programs[sp[2]].total_credits
        IN  IF total_credits = 0
            THEN progress.num = 0
            ELSE progress.num * total_credits
                    = 100 * credits_completed(sp[1], sp[2]) * progress.den

(***************************************************************************)
(* C14, amended: progress_percentage() is 0 when total_credits is 0 or     *)
(* negative and 100 * credits_completed() / total_credits when it is       *)
(* positive; it is 0 when nothing is completed and 100 when the completed  *)
(* credits equal total_credits.                                            *)
(***************************************************************************)
C14_ProgressPercentage ==
    \A sp \in ProgramEnrollments :
        LET progress == progress_percentage(sp[1], sp[2])
            total_credits == programs[sp[2]].total_credits
            cc == credits_completed(sp[1], sp[2])
        IN  /\ progress.den > 0
            /\ IF total_credits <= 0
               THEN progress.num = 0
               ELSE /\ progress.num * total_credits = 100 * cc * progress.den
                    /\ cc = 0 => progress.num = 0
                    /\ cc = total_credits => progress.num = 100 * progress.den

\* the progress column was shown green for a student who completed exactly the total
\* credits of p1, while p2 has no total credits
C14_Witness ==
    /\ response = Progress("green")
    /\ programs["p1"].total_credits = 3
    /\ credits_completed("s1", "p1") = 3
    /\ progress_percentage("s1", "p1") = [num |-> 300, den |-> 3]
    /\ programs["p2"].total_credits = 0
    /\ credits_completed("s1", "p2") > 0
    /\ progress_percentage("s1", "p2").num = 0

\* credits_earned when it is present, 0 included, and the course's credits when it is null
CreditsRecorded(e) ==
    IF enrollments[e].credits_earned = NULL
    THEN Course_credits[offerings[enrollments[e].course_offering].course]
    ELSE enrollments[e].credits_earned[1]

\* the student's completed enrollments in courses of the program's curriculum
CompletedInCurriculum(student, program) ==
    {e \in EnrollmentIds :
        /\ enrollments[e].student = student
        /\ enrollments[e].status = "completed"
        /\ offerings[enrollments[e].course_offering].course \in curriculum[program]}

RECURSIVE CreditsRecordedOver(_)
CreditsRecordedOver(ids) ==
    IF ids = {} THEN 0
    ELSE LET e == CHOOSE x \in ids : TRUE
         IN  CreditsRecorded(e) + CreditsRecordedOver(ids \ {e})

(***************************************************************************)
(* C15: credits_completed() is the sum, over the student's completed       *)
(* enrollments in courses of the program's curriculum, of credits_earned   *)
(* when it is present (0 included) and of the course's credits when it is  *)
(* null.                                                                   *)
(* It fails: `credits_earned or course.credits` takes the course's credits *)
(* when credits_earned is 0.                                               *)
(***************************************************************************)
C15_CreditsCompleted ==
    \A sp \in ProgramEnrollments :
        credits_completed(sp[1], sp[2])
           = CreditsRecordedOver(CompletedInCurriculum(sp[1], sp[2]))

\* some register_course or drop_course call takes this step
RegisterOrDropStep ==
    \/ \E user \in Students, o \in OfferingIds : register_course(user, o)
    \/ \E user \in Students, e \in 1..MaxEnrollmentId : drop_course(user, e)

(***************************************************************************)
(* C16: over register_course and drop_course calls Enrollment.status moves *)
(* one way only: an enrollment that is 'completed', 'withdrawn' or         *)
(* 'failed' keeps its status, and no enrollment returns to 'registered'.   *)
(* It fails: drop_course does not look at the status, so a completed or    *)
(* failed enrollment dropped before the deadline becomes 'withdrawn'.      *)
(***************************************************************************)
C16_StatusOneWay ==
    [][RegisterOrDropStep =>
          \A e \in EnrollmentIds :
             /\ enrollments[e].status \in {"completed", "withdrawn", "failed"} =>
                   enrollments'[e].status = enrollments[e].status
             /\ enrollments'[e].status = "registered" =>
                   enrollments[e].status = "registered"
      ]_vars

\* the student has a withdrawn, inactive row for the offering and no active one
HasDropped(user, o) ==
    /\ ~HasActiveRow(user, o)
    /\ \E e \in EnrollmentIds :
          /\ enrollments[e].student = user
          /\ enrollments[e].course_offering = o
          /\ enrollments[e].status = "withdrawn"
          /\ ~enrollments[e].is_active

(***************************************************************************)
(* C17: after a student has dropped an offering, a later register_course   *)
(* by the same student for the same offering, with window, capacity and    *)
(* prerequisites satisfied, succeeds: a new Enrollment row is appended,    *)
(* the withdrawn row stays as it was and enrolled increases by 1.          *)
(* It fails: the withdrawn row still holds the unique (student,            *)
(* course_offering) pair, the insert raises IntegrityError and no row is   *)
(* created.                                                                *)
(***************************************************************************)
C17_ReRegisterAfterDrop ==
    [][\A user \in Students, o \in OfferingIds :
          ( /\ register_course(user, o)
            /\ HasDropped(user, o)
            /\ WindowOpen(o)
            /\ offerings[o].enrolled < offerings[o].capacity
            /\ blocking(user, offerings[o].course) = {} ) =>
            /\ response' = Enrolled
            /\ enrollments' = Append(enrollments, NewEnrollment(user, o))
            /\ offerings' = [offerings EXCEPT ![o].enrolled = @ + 1]
      ]_vars

\* the active rows of one student in one offering
ActiveRowsOf(user, o) == {e \in ActiveRows(o) : enrollments[e].student = user}

(***************************************************************************)
(* C18: in every reachable state there is at most one Enrollment with      *)
(* is_active = True for any (student, offering) pair.                      *)
(***************************************************************************)
C18_OneActivePerPair ==
    \A user \in Students, o \in OfferingIds : Cardinality(ActiveRowsOf(user, o)) <= 1

\* a student holds one active row in each offering, and a repeated request has just been
\* refused
C18_Witness ==
    /\ response = DuplicateEnrollment
    /\ \E user \in Students :
          \A o \in OfferingIds : Cardinality(ActiveRowsOf(user, o)) = 1

(***************************************************************************)
(* C19: when register_course and drop_course run one at a time on          *)
(* offerings whose capacity is fixed and which start with enrolled = 0,    *)
(* every reachable state has 0 <= enrolled <= capacity.                    *)
(* It fails: drop_course decrements the counter for a row that is already  *)
(* withdrawn, so the counter goes below 0.                                 *)
(***************************************************************************)
C19_EnrolledWithinCapacity ==
    \A o \in OfferingIds :
        0 <= offerings[o].enrolled /\ offerings[o].enrolled <= offerings[o].capacity

(***************************************************************************)
(* C20: every register_course or drop_course call that does not succeed    *)
(* (rejected for window, capacity, duplicate, prerequisite or deadline, or *)
(* failing on the uniqueness constraint) leaves the Enrollment rows and    *)
(* every offering's enrolled counter exactly as they were.                 *)
(* It fails: Enrollment.save() increments and saves the counter before the *)
(* insert that raises IntegrityError.                                      *)
(***************************************************************************)
C20_FailedCallsChangeNothing ==
    [][(RegisterOrDropStep /\ response' \notin {Enrolled, Dropped}) =>
          /\ enrollments' = enrollments
          /\ \A o \in OfferingIds : offerings'[o].enrolled = offerings[o].enrolled
      ]_vars

\* the active rows of offering o that belong to neither of the two requests
OtherActiveRows(o) ==
    {e \in ActiveRows(o) : \A w \in Workers : enrollments[e].student # inflight[w].user}

\* both workers have finished a successful request for offering o, which had exactly one
\* free seat apart from them
BothTookLastSeat(o) ==
    /\ \A w \in Workers :
          /\ inflight[w].pc = "done"
          /\ inflight[w].offering_id = o
          /\ inflight[w].outcome = Enrolled
    /\ Cardinality(OtherActiveRows(o)) = offerings[o].capacity - 1

(***************************************************************************)
(* C21: two overlapping register_course requests by different students     *)
(* for an offering with exactly one free seat can both pass the is_full    *)
(* check and both create an active Enrollment: when both have done so, the *)
(* offering has more active enrollments than capacity, and because each    *)
(* request saved its own stale counter plus one, enrolled is smaller than  *)
(* the number of active enrollments.                                       *)
(***************************************************************************)
C21_OverlapOverbooks ==
    \A o \in OfferingIds :
        BothTookLastSeat(o) =>
            /\ inflight["w1"].user # inflight["w2"].user
            /\ Cardinality(ActiveRows(o)) > offerings[o].capacity
            /\ offerings[o].enrolled < Cardinality(ActiveRows(o))
            /\ offerings[o].enrolled = offerings[o].capacity

\* both requests for the single seat of o1 were served: two active rows, counter at 1
C21_Witness ==
    /\ BothTookLastSeat("o1")
    /\ Cardinality(ActiveRows("o1")) = 2
    /\ offerings["o1"].capacity = 1
    /\ offerings["o1"].enrolled = 1

\* the text holds a "[" with a "]" somewhere after it
HasArray(t) == \E i, j \in 1..Len(t) : i < j /\ t[i] = "[" /\ t[j] = "]"

\* one record with the keys title, description and url
IsFallback(value) ==
    /\ Len(value) = 1
    /\ DOMAIN value[1] = {"title", "description", "url"}
    /\ \E c \in CourseNames : value[1].title = "General resources for " \o c

\* the cases in which the fallback is due
ReplyFails(reply) ==
    \/ reply.kind \in {"raise", "None"}
    \/ ~HasArray(strip_fences(reply.text))
    \/ ~json_loads(search_array(strip_fences(reply.text))).ok
    \/ json_loads(search_array(strip_fences(reply.text))).value = <<>>

(***************************************************************************)
(* C22: fetch_online_resources always returns a non-empty list: exactly    *)
(* one fallback record with the keys title, description and url when the   *)
(* model call raises, when the reply holds no JSON array, or when the      *)
(* extracted array is not valid JSON or is empty; the parsed array         *)
(* otherwise.                                                              *)
(* It fails: a reply without a text part makes response.text None, and     *)
(* text_output.strip() raises AttributeError outside the try block.        *)
(***************************************************************************)
C22_AlwaysNonEmptyList ==
    resources.kind # "not called" =>
        /\ resources.kind = "returned"
        /\ Len(resources.value) >= 1
        /\ IF ReplyFails(text_output)
           THEN IsFallback(resources.value)
           ELSE resources.value
                   = json_loads(search_array(strip_fences(text_output.text))).value

SemesterOf(o) == semesters[offerings[o].semester]

C24_ProgramEnrollmentRequired ==
    [][\A user \in Students, o \in OfferingIds :
          (register_course(user, o) /\ ~has_program_enrollment(user)) =>
            /\ response' # Enrolled
            /\ enrollments' = enrollments
            /\ WindowOpen(o) => response' = NotEnrolledInProgram
      ]_vars

(***************************************************************************)
(* C27: after any sequence of Semester.save() calls executed one at a      *)
(* time, at most one Semester has is_current = True, and a semester saved  *)
(* with is_current = True is the one that is current afterwards.           *)
(***************************************************************************)
C27_OneCurrentSemester ==
    [][\A semester \in SemesterIds, flag \in BOOLEAN :
          Semester_save(semester, flag) =>
            /\ Cardinality(current_semesters') <= 1
            /\ flag => current_semesters' = {semester}
      ]_vars

\* sem2 is the current semester and the listing was shown for it
C27_Witness ==
    /\ current_semesters = {"sem2"}
    /\ response = Listing
    /\ today = semesters["sem2"].registration_end

(***************************************************************************)
(* C25: register_course evaluates its checks in the order date window,     *)
(* capacity, duplicate enrollment, prerequisites, and reports only the     *)
(* first that fails: outside the window the date message is given whatever *)
(* else holds; inside it a full offering gives the capacity message even   *)
(* to a student already actively enrolled in it; with a free seat an       *)
(* active enrollment gives the duplicate message; otherwise, with unmet    *)
(* mandatory prerequisites, exactly the first unmet one in the order of    *)
(* the prerequisite table is reported.  Every such rejection creates no    *)
(* Enrollment and leaves the counters alone.                               *)
(***************************************************************************)
\* the first row, in table order, of a mandatory prerequisite the student has not completed
FirstUnmet(user, course) ==
    CHOOSE i \in required_prerequisites(course) :
        /\ prereqs[i].is_mandatory /\ ~HasQualifying(user, prereqs[i])
        /\ \A j \in required_prerequisites(course) :
               (prereqs[j].is_mandatory /\ ~HasQualifying(user, prereqs[j])) => i <= j

C25_ChecksInFixedOrder ==
    [][\A user \in Students, o \in OfferingIds :
          register_course(user, o) =>
            /\ response' =
                  IF today < SemesterOf(o).registration_start THEN NotStarted
                  ELSE IF today > SemesterOf(o).add_drop_deadline THEN AddDropEndedReg
                  ELSE IF offerings[o].enrolled >= offerings[o].capacity THEN CapacityExceeded
                  ELSE IF HasActiveRow(user, o) THEN DuplicateEnrollment
                  ELSE IF MandatoryUnmet(user, offerings[o].course)
                    THEN MissingPrerequisite(
                             prereqs[FirstUnmet(user, offerings[o].course)].prerequisite)
                  ELSE response'
            /\ response' \notin {Enrolled, IntegrityError} =>
                  enrollments' = enrollments /\ offerings' = offerings
      ]_vars

\* o1 is full and holds an active row, both prerequisites of c2 are mandatory and nobody
\* has completed anything, and the last answer named the first row of the table
C25_Witness ==
    /\ Len(prereqs) = 2
    /\ \A i \in 1..2 : prereqs[i].is_mandatory
    /\ prereqs[1].prerequisite = "c3"
    /\ ActiveRows("o1") # {}
    /\ offerings["o1"].enrolled >= offerings["o1"].capacity
    /\ \A e \in EnrollmentIds : enrollments[e].status = "registered"
    /\ response = MissingPrerequisite("c3")


(***************************************************************************)
(* C26: dropping is idempotent on the seat counter: a drop_course call,    *)
(* not after the deadline, on an enrollment of the caller that is already  *)
(* withdrawn and inactive leaves every enrolled counter and every          *)
(* enrollment as the first drop left them.                                 *)
(* It fails: drop_course looks the row up by id and student only and       *)
(* decrements the counter again.                                           *)
(***************************************************************************)
C26_DropIdempotent ==
    [][\A user \in Students, e \in 1..MaxEnrollmentId :
          ( /\ e \in EnrollmentIds
            /\ enrollments[e].student = user
            /\ enrollments[e].status = "withdrawn"
            /\ ~enrollments[e].is_active
            /\ today <= DeadlineOf(e)
            /\ drop_course(user, e) ) =>
              /\ offerings' = offerings
              /\ enrollments' = enrollments
      ]_vars


(***************************************************************************)
(* C30: a student can only drop their own enrollment: a drop_course        *)
(* request by one student with the id of an enrollment that belongs to     *)
(* another student is answered as not found and changes no enrollment and  *)
(* no offering's enrolled counter.                                         *)
(***************************************************************************)
C30_DropOnlyOwnEnrollment ==
    [][\A user \in Students, e \in 1..MaxEnrollmentId :
          ( /\ e \in EnrollmentIds
            /\ enrollments[e].student # user
            /\ drop_course(user, e) ) =>
              /\ response' = Http404
              /\ enrollments' = enrollments
              /\ \A o \in OfferingIds : offerings'[o].enrolled = offerings[o].enrolled
      ]_vars

\* the last request was answered as not found while the only row, the active enrollment
\* of s1 in o1, and both counters are as they were created
C30_Witness ==
    /\ response = Http404
    /\ enrollments = <<NewEnrollment("s1", "o1")>>
    /\ offerings["o1"].enrolled = 1
    /\ offerings["o2"].enrolled = 0
    /\ today <= DeadlineOf(1)


(***************************************************************************)
(* C28: when FinanceRecord appends for the same (student, program)         *)
(* overlap, every record that has an earlier record of its ledger still    *)
(* stores balance_after = total_program_fee minus the signed amounts of    *)
(* itself and of all records of that ledger with a smaller id: no          *)
(* interleaving of the read of the prior records and the insert loses a    *)
(* transaction from a stored balance.                                      *)
(* It fails: save() reads the prior records and inserts in separate        *)
(* statements without a lock, so two overlapping saves both read the       *)
(* ledger before either insert.                                            *)
(***************************************************************************)
C28_OverlapLosesNoTransaction ==
    \A k \in 1..Len(finance) :
        LET ledger == {i \in 1..k : SameKey(i, k)}
        IN  Cardinality(ledger) >= 2 =>
              finance[k].balance_after =
                  total_program_fee(programs[finance[k].program]) - SignedOver(ledger)


(***************************************************************************)
(* C29: saving a new FinanceRecord that has no program succeeds and stores *)
(* balance_after computed against a total program fee of 0: the record is  *)
(* appended with balance_after = 0 minus the signed sum of the student's   *)
(* program-less records, the new one included.                             *)
(* It fails: the fee of 0 is written Decimal('0.00') in a module that      *)
(* never imports Decimal, so the save raises NameError and stores nothing. *)
(***************************************************************************)
ProgramLess(student) ==
    {i \in 1..Len(finance) : finance[i].student = student /\ finance[i].program = NoProgram}

C29_NullProgramSaves ==
    [][\A student \in Students, transaction_type \in TRANSACTION_TYPES, amount \in Amounts :
          FinanceRecord_save_new(student, NoProgram, transaction_type, amount) =>
            /\ response' # NameError
            /\ Len(finance') = Len(finance) + 1
            /\ LET new == finance'[Len(finance')]
               IN  /\ new.student = student
                   /\ new.program = NoProgram
                   /\ new.balance_after = 0 - (SignedOver(ProgramLess(student)) + Signed(new))
      ]_vars

=============================================================================
